---- MODULE Spec2Model ----
(***************************************************************************)
(* A model of ganttdsl's constraint-based scheduler                        *)
(* (src/src/ganttdsl/dsl.py): Scheduler.has_circular_dependencies,         *)
(* CriticalPathScheduler.schedule, ScheduledTask and Plan.__init__.        *)
(*                                                                         *)
(* One call of schedule(tasks, team, start_date) is followed from its      *)
(* entry to the returned Plan or the raised exception.  The CP solver is   *)
(* modelled by its contract: m.solve() returns False when the constraints  *)
(* emitted by schedule have no satisfying assignment, and otherwise leaves *)
(* in the chunk variables some assignment that minimises the objective.    *)
(* Calendar dates are proleptic Gregorian ordinals (date.toordinal()).     *)
(***************************************************************************)
EXTENDS Integers, Sequences, FiniteSets, TLC

VARIABLES
    tasks,                  \* the `tasks` argument: a sequence of Task objects (ids)
    effort,                 \* Task.effort of every Task object
    parallelization_factor, \* Task.parallelization_factor of every Task object
    dependencies,           \* Task.dependencies of every Task object
    team_size,              \* team.size
    max_days,               \* CriticalPathScheduler.max_days
    start_date,             \* the `start_date` argument
    workday_filter,         \* Scheduler.workday_filter (a named predicate)
    pc,                     \* position inside schedule / Plan.__init__
    error,                  \* the exception raised, "" while none
    planned_tasks,          \* planned_tasks: ScheduledTask.task of each entry
    model_built,            \* chunk variables and constraints have been created
    solver_calls,           \* number of m.solve() calls made
    chunk_days,             \* per planned task, the solved day_of_work of its chunks
    allocation,             \* per planned task, daily_engineer_allocation
    total_days,             \* Plan.__init__: total_days
    day,                    \* Plan.__init__: loop variable of `for day in range(...)`
    current_date,           \* Plan.__init__: current_date
    days_to_date,           \* Plan.__init__: days_to_date
    attached                \* ScheduledTask._days_to_date is set (not None)

vars == <<tasks, effort, parallelization_factor, dependencies, team_size, max_days,
          start_date, workday_filter, pc, error, planned_tasks, model_built,
          solver_calls, chunk_days, allocation, total_days, day, current_date,
          days_to_date, attached>>

inputs == <<tasks, effort, parallelization_factor, dependencies, team_size, max_days,
            start_date, workday_filter>>

----------------------------------------------------------------------------
(* Bounds of the input space.                                              *)

\* Number of Task objects that exist; the task list holds the first n of them.
MaxTasks == 3
\* Largest total effort (number of chunk variables) of the listed tasks.
MaxChunks == 3
\* Largest parallelization factor and largest team size.
MaxCap == 2
\* Largest horizon max_days of the general input family.
MaxDays == 2
\* Horizon that stands for the default max_days in scenario S2.
S2Horizon == 4
\* Horizon that stands for the default max_days in scenario S3: one day more
\* than the 5 days the scenario needs.
S3Horizon == 5
\* Number of dates after 2025-01-01 in the calendar of the model; it stands for
\* the distance to date.max.
CalendarDays == 20
\* Largest effort of the task in the single-task input family.
MaxSingleEffort == 5
\* Largest number of listed tasks of the calls in which the constraint model
\* is compared with its variants.
MaxModelTasks == 2

\* Default weights of CriticalPathScheduler.__init__.
cost_of_time == 100
cost_of_context == 1
cost_of_procastination == 1

TaskIds == 1 .. MaxTasks

\* date(2025, 1, 1).toordinal(), a Wednesday.
Date20250101 == 739252

----------------------------------------------------------------------------
(* Small helpers.                                                          *)

Min2(a, b) == IF a <= b THEN a ELSE b

SetMax(S) == CHOOSE x \in S : \A y \in S : y <= x

SetMin(S) == CHOOSE x \in S : \A y \in S : x <= y

RECURSIVE SeqSum(_)
SeqSum(s) == IF Len(s) = 0 THEN 0 ELSE Head(s) + SeqSum(Tail(s))

Range(s) == {s[i] : i \in DOMAIN s}

\* The elements of the set S as a sequence, by increasing rank.
RECURSIVE OrderedBy(_, _)
OrderedBy(S, rank) ==
    IF S = {} THEN <<>>
    ELSE LET first == CHOOSE x \in S : \A y \in S : rank[x] <= rank[y]
         IN  <<first>> \o OrderedBy(S \ {first}, rank)

\* Every iteration order a Python set of Task objects can have.
Orders == {r \in [TaskIds -> TaskIds] : \A a, b \in TaskIds : a # b => r[a] # r[b]}

----------------------------------------------------------------------------
(* Scheduler.has_circular_dependencies (dsl.py 288-318).                   *)

\* dfs(task, ancestors) with the shared `visited` set threaded through.  The
\* result carries the return value and both sets as the call leaves them;
\* `rank` is the iteration order of task.dependencies.
RECURSIVE dfs(_, _, _, _)
RECURSIVE dfs_deps(_, _, _, _, _, _)
dfs(task, ancestors, visited, rank) ==
    IF task \in ancestors
    THEN [found |-> TRUE, ancestors |-> ancestors, visited |-> visited]
    ELSE IF task \in visited
    THEN [found |-> FALSE, ancestors |-> ancestors, visited |-> visited]
    ELSE dfs_deps(task, OrderedBy(dependencies[task], rank), 1,
                  ancestors \cup {task}, visited \cup {task}, rank)

\* The loop `for dep in task.dependencies` of dfs, from its i-th iteration.
dfs_deps(task, deps, i, ancestors, visited, rank) ==
    IF i > Len(deps)
    THEN [found |-> FALSE, ancestors |-> ancestors \ {task}, visited |-> visited]
    ELSE LET r == dfs(deps[i], ancestors, visited, rank)
         IN  IF r.found THEN r
             ELSE dfs_deps(task, deps, i + 1, r.ancestors, r.visited, rank)

\* The loop `for task in tasks` of has_circular_dependencies, from index i.
RECURSIVE circular_from(_, _, _, _)
circular_from(ts, i, visited, rank) ==
    IF i > Len(ts) THEN FALSE
    ELSE LET r == dfs(ts[i], {}, visited, rank)
         IN  IF r.found THEN TRUE
             ELSE circular_from(ts, i + 1, r.visited, rank)

\* A slip has_circular_dependencies could have: only the first task is explored.
has_circular_dependencies_first_only(ts, rank) ==
    IF Len(ts) = 0 THEN FALSE ELSE dfs(ts[1], {}, {}, rank).found

has_circular_dependencies(ts, rank) == circular_from(ts, 1, {}, rank)

----------------------------------------------------------------------------
(* Task, ScheduledTask and the workday predicate.                          *)

\* Task.optimistic_task_duration (dsl.py 71-82).
optimistic_task_duration(task, max_available_engineers) ==
    effort[task] \div Min2(max_available_engineers, parallelization_factor[task])

\* date.weekday() of the date with ordinal d: Monday is 0, Sunday is 6.
weekday(d) == (d + 6) % 7

\* The workday predicates of the model: the default of Scheduler.__init__
\* (lambda d: d.weekday() < 5), a caller's predicate accepting every date, and
\* a caller's predicate accepting Monday to Friday up to Friday 2025-01-03
\* and no date after it.
WorkdayFilters == {"mon_fri", "every_day", "mon_fri_until_jan_3"}

is_workday(filter, d) ==
    IF filter = "mon_fri" THEN weekday(d) < 5
    ELSE IF filter = "mon_fri_until_jan_3" THEN weekday(d) < 5 /\ d <= Date20250101 + 2
    ELSE TRUE

\* date.max of the calendar of the model: `date + timedelta(days=1)` raises
\* OverflowError beyond it.
MaxDate == Date20250101 + CalendarDays

\* cp.Count(list, value): the number of entries of the list equal to value.
Count(days, value) == Cardinality({k \in DOMAIN days : days[k] = value})

\* A slip of dsl.py 467: the entry is set to 1 instead of being incremented.
engineer_allocation_set(days) == [d \in Range(days) |-> 1]

\* daily_engineer_allocation once the loop of dsl.py 466-467 has run over the
\* chunks of one task: every chunk adds 1 to the entry of its day.
engineer_allocation(days) == [d \in Range(days) |-> Count(days, d)]

\* ScheduledTask.start_day / end_day (dsl.py 116-129) of an allocation.
start_day(alloc) ==
    LET used == {d \in DOMAIN alloc : alloc[d] > 0}
    IN  IF used = {} THEN -1 ELSE SetMin(used)

end_day(alloc) ==
    LET used == {d \in DOMAIN alloc : alloc[d] > 0}
    IN  IF used = {} THEN -1 ELSE SetMax(used)

----------------------------------------------------------------------------
(* The constraint model of CriticalPathScheduler.schedule (dsl.py 401-462). *)
(* An assignment a gives, for the i-th planned task, the sequence a[i] of   *)
(* the day_of_work values of its chunks, in identifier order.               *)

Planned == DOMAIN planned_tasks

\* plan_of[task] (dsl.py 393): the dict comprehension runs over planned_tasks
\* in order and Task hashes by name, so a task that is listed more than once
\* maps to its last ScheduledTask.
plan_of(task) ==
    CHOOSE i \in Planned :
        /\ planned_tasks[i] = task
        /\ \A k \in Planned : planned_tasks[k] = task => k <= i

\* dependents_of[plan_of[dependency]] (dsl.py 395-400), as a set of indices:
\* the dependents are appended to the ScheduledTask plan_of gives for the
\* dependency, so only the last ScheduledTask of a task has any.
dependents_of(i) ==
    {j \in Planned :
        /\ planned_tasks[i] \in dependencies[planned_tasks[j]]
        /\ plan_of(planned_tasks[i]) = i}

\* dependencies_of[dependent] (dsl.py 395-400), as a set of indices.
dependencies_of(j) ==
    {plan_of(dep) : dep \in dependencies[planned_tasks[j]]}

\* A slip of dsl.py 415: the order of the chunks of a task is strict.
MonotonicStrict(days) == \A k \in 1 .. Len(days) - 1 : days[k] < days[k + 1]

\* dsl.py 414-415: chunk_a.day_of_work <= chunk_b.day_of_work.
Monotonic(days) == \A k \in 1 .. Len(days) - 1 : days[k] <= days[k + 1]

\* dsl.py 436-439: per task, Count(chunks, day) <= max_parallel for day in
\* range(max_days).
TaskCapacity(i, days) ==
    LET max_parallel == Min2(parallelization_factor[planned_tasks[i]], team_size)
    IN  \A d \in 0 .. max_days - 1 : Count(days, d) <= max_parallel

\* dsl.py 405-415: the sequences of n values of [0, max_days] in which no value
\* is below the one before it, built one chunk after the other.
RECURSIVE OrderedDays(_)
OrderedDays(n) ==
    IF n = 0 THEN {<<>>}
    ELSE UNION {{Append(days, d) : d \in (IF n = 1 THEN 0 ELSE days[n - 1]) .. max_days} :
                days \in OrderedDays(n - 1)}

\* dsl.py 404-415: the values the chunk variables of task i can take together:
\* each in [0, max_days], ordered by identifier, within the per-task capacity.
TaskDays(i) ==
    {days \in OrderedDays(effort[planned_tasks[i]]) :
        Monotonic(days) /\ TaskCapacity(i, days)}

\* A slip of constraint 1 (dsl.py 423): the "+ 1" is missing.
PrecedenceNotStrict(a) ==
    \A i \in Planned : \A j \in dependents_of(i) :
        \A p \in DOMAIN a[i] : \A q \in DOMAIN a[j] : a[j][q] >= a[i][p]

\* dsl.py 419-423: dependent_chunk.day_of_work >= dependency_chunk.day_of_work + 1.
Precedence(a) ==
    \A i \in Planned : \A j \in dependents_of(i) :
        \A p \in DOMAIN a[i] : \A q \in DOMAIN a[j] : a[j][q] >= a[i][p] + 1

\* A slip of dsl.py 427-431: the two sides of the comparison are exchanged.
PrecedenceMirrorSwapped(a) ==
    \A j \in Planned : \A i \in dependencies_of(j) :
        \A q \in DOMAIN a[j] : \A p \in DOMAIN a[i] : a[i][p] >= a[j][q] - 1

\* dsl.py 427-431: dependent_chunk.day_of_work >= dependency_chunk.day_of_work - 1.
PrecedenceMirror(a) ==
    \A j \in Planned : \A i \in dependencies_of(j) :
        \A q \in DOMAIN a[j] : \A p \in DOMAIN a[i] : a[j][q] >= a[i][p] - 1

\* The number of chunks of all tasks placed on day d.
RECURSIVE CountAll(_, _, _)
CountAll(a, i, d) ==
    IF i > Len(a) THEN 0 ELSE Count(a[i], d) + CountAll(a, i + 1, d)

\* dsl.py 442-443: Count(all_chunks, day) <= team.size for day in range(max_days).
TeamCapacity(a) == \A d \in 0 .. max_days - 1 : CountAll(a, 1, d) <= team_size

\* All chunk days of an assignment, as a set.
AllDays(a) == UNION {Range(a[i]) : i \in DOMAIN a}

\* dsl.py 453-457: Maximum(days of the task) - Minimum(days of the task)
\* - optimistic_task_duration(team.size), for the chunk days of task i.
context_term(i, days) ==
    SetMax(Range(days)) - SetMin(Range(days))
    - optimistic_task_duration(planned_tasks[i], team_size)

\* The context terms of the objective (dsl.py 451-458), from task i on.
RECURSIVE ContextCost(_, _)
ContextCost(a, i) ==
    IF i > Len(a) THEN 0
    ELSE cost_of_context * context_term(i, a[i]) + ContextCost(a, i + 1)

\* A slip of dsl.py 461: the days are subtracted, so later is cheaper.
RECURSIVE ProcrastinationCostNegated(_, _)
ProcrastinationCostNegated(a, i) ==
    IF i > Len(a) THEN 0
    ELSE ProcrastinationCostNegated(a, i + 1) - cost_of_procastination * SeqSum(a[i])

\* The procrastination terms of the objective (dsl.py 460-461), from task i on.
RECURSIVE ProcrastinationCost(_, _)
ProcrastinationCost(a, i) ==
    IF i > Len(a) THEN 0
    ELSE cost_of_procastination * SeqSum(a[i]) + ProcrastinationCost(a, i + 1)

\* A slip of the objective: the procrastination terms are left out.
cost_function_no_procrastination(a) ==
    cost_of_time * SetMax(AllDays(a)) + ContextCost(a, 1)

\* cost_function (dsl.py 449-461).
cost_function(a) ==
    cost_of_time * SetMax(AllDays(a)) + ContextCost(a, 1) + ProcrastinationCost(a, 1)

\* The assignments of the first n planned tasks that respect the domains, the
\* monotonicity and the per-task capacity.
RECURSIVE Candidates(_)
Candidates(n) ==
    IF n = 0 THEN {<<>>}
    ELSE {Append(a, days) : a \in Candidates(n - 1), days \in TaskDays(n)}

\* The candidates of the first n planned tasks that keep the team capacity
\* (dsl.py 442-443), built one task after the other: an assignment of n - 1
\* tasks that is over team.size on some day stays over it with one more task.
RECURSIVE CandidatesWithinTeam(_)
CandidatesWithinTeam(n) ==
    IF n = 0 THEN {<<>>}
    ELSE LET within == {p \in CandidatesWithinTeam(n - 1) \X TaskDays(n) :
                           TeamCapacity(Append(p[1], p[2]))}
         IN  {Append(p[1], p[2]) : p \in within}

\* The assignments that satisfy every constraint added to the model m.
Satisfying ==
    {a \in CandidatesWithinTeam(Len(planned_tasks)) :
        Precedence(a) /\ PrecedenceMirror(a) /\ TeamCapacity(a)}

\* A slip of dsl.py 462: the objective is maximized.
SolutionsMaximized ==
    LET sat == Satisfying
    IN  IF sat = {} THEN {}
        ELSE LET worst == SetMax({cost_function(a) : a \in sat})
             IN  {a \in sat : cost_function(a) = worst}

\* m.solve() after m.minimize(cost_function): the satisfying assignments of
\* least cost; empty when solve() returns False.
Solutions ==
    LET sat == Satisfying
    IN  IF sat = {} THEN {}
        ELSE LET best == SetMin({cost_function(a) : a \in sat})
             IN  {a \in sat : cost_function(a) = best}

\* dsl.py 462-465: what m.solve() returns, with the values it leaves in the
\* chunk variables when it returns True.
solve ==
    LET solutions == Solutions
    IN  IF solutions = {} THEN {<<FALSE, <<>>>>}
        ELSE {<<TRUE, a>> : a \in solutions}

----------------------------------------------------------------------------
(* The inputs of one call.                                                 *)

\* Besides the n listed tasks 1 .. n, one more Task object may exist (and be
\* depended on without being listed).
Existing(n) == 1 .. Min2(n + 1, MaxTasks)

\* Task objects are built one after the other, each with dependencies among
\* the tasks built before it (Task.__init__); afterwards at most one
\* dependency is added to a task (task.dependencies.add), which is the only
\* way to close a cycle.  <<0, 0>> stands for "none added".
ForwardDependencies(n) ==
    {f \in [TaskIds -> SUBSET Existing(n)] :
        \A t \in TaskIds : f[t] \subseteq 1 .. t - 1 /\ (t \notin Existing(n) => f[t] = {})}

AddedDependency(n) == {<<0, 0>>} \cup (Existing(n) \X Existing(n))

WithDependency(f, e) ==
    IF e[1] = 0 THEN f ELSE [f EXCEPT ![e[1]] = @ \cup {e[2]}]

DependencyGraphs(n) ==
    {WithDependency(f, e) : f \in ForwardDependencies(n), e \in AddedDependency(n)}

\* Efforts and parallelization factors that Task.__init__ accepts: both are
\* at least 1 and nothing relates the two (dsl.py 24-25, 44-51).  Tasks
\* outside the list are never given chunks and keep effort 1, factor 1.
\* schedule makes effort chunk variables per listed task (dsl.py 404-410);
\* the listed tasks have at most MaxChunks of them in total.
RECURSIVE TotalEffort(_, _)
TotalEffort(e, n) == IF n = 0 THEN 0 ELSE e[n] + TotalEffort(e, n - 1)

Efforts(n) ==
    {e \in [TaskIds -> 1 .. MaxChunks] :
        /\ \A t \in TaskIds : t > n => e[t] = 1
        /\ TotalEffort(e, n) <= MaxChunks}

Factors(n) ==
    {f \in [TaskIds -> 1 .. MaxCap] : \A t \in TaskIds : t > n => f[t] = 1}

\* Dependencies given at construction among the n listed tasks: each listed
\* task depends on listed tasks built before it.
ListedDependencies(n) ==
    {f \in [TaskIds -> SUBSET (1 .. n)] :
        \A t \in TaskIds : f[t] \subseteq 1 .. t - 1 /\ (t > n => f[t] = {})}

\* Start dates and workday predicates: Friday 2025-01-03 and Saturday
\* 2025-01-04 with Monday-Friday workdays, Saturday 2025-01-04 with every
\* date a workday.
Calendars ==
    {<<Date20250101 + 2, "mon_fri">>, <<Date20250101 + 3, "mon_fri">>,
     <<Date20250101 + 3, "every_day">>}

\* The state at the entry of schedule, before its first statement.
Entry ==
    /\ pc = "schedule"
    /\ error = ""
    /\ planned_tasks = <<>>
    /\ model_built = FALSE
    /\ solver_calls = 0
    /\ chunk_days = <<>>
    /\ allocation = <<>>
    /\ total_days = 0
    /\ day = 0
    /\ current_date = 0
    /\ days_to_date = <<>>
    /\ attached = FALSE

\* The general calls: n distinct tasks (a name is unique within a scheduling
\* run), listed in the order they were built, of any efforts and factors,
\* each depending on listed tasks built before it, started on Friday
\* 2025-01-03 with Monday-Friday workdays.
InitGeneral ==
    /\ \E n \in 0 .. MaxTasks :
        /\ tasks = [i \in 1 .. n |-> i]
        /\ effort \in Efforts(n)
        /\ parallelization_factor \in Factors(n)
        /\ dependencies \in ListedDependencies(n)
    /\ team_size \in 1 .. MaxCap
    /\ max_days \in 1 .. MaxDays
    /\ start_date = Date20250101 + 2
    /\ workday_filter = "mon_fri"
    /\ Entry

\* The calls over every calendar: n distinct tasks of factor 1, each
\* depending on listed tasks built before it.
InitStartDates ==
    /\ \E n \in 0 .. MaxTasks :
        /\ tasks = [i \in 1 .. n |-> i]
        /\ effort \in Efforts(n)
        /\ dependencies \in ListedDependencies(n)
    /\ parallelization_factor = [t \in TaskIds |-> 1]
    /\ team_size \in 1 .. MaxCap
    /\ max_days \in 1 .. MaxDays
    /\ \E c \in Calendars : start_date = c[1] /\ workday_filter = c[2]
    /\ Entry

\* The calls over every dependency graph: n distinct tasks of factor 1 whose
\* dependencies may name an unlisted task, a task listed later or close a
\* cycle, started on Friday 2025-01-03.
InitGraphs ==
    /\ \E n \in 0 .. MaxTasks :
        /\ tasks = [i \in 1 .. n |-> i]
        /\ effort \in Efforts(n)
        /\ dependencies \in DependencyGraphs(n)
    /\ parallelization_factor = [t \in TaskIds |-> 1]
    /\ team_size \in 1 .. MaxCap
    /\ max_days \in 1 .. MaxDays
    /\ start_date = Date20250101 + 2
    /\ workday_filter = "mon_fri"
    /\ Entry

\* Scenario S2: A (effort 3, factor 2), B (effort 2, factor 1, depends on A),
\* team of 3, start on Wednesday 2025-01-01, Monday-Friday workdays.
InitS2 ==
    /\ tasks = <<1, 2>>
    /\ effort = [t \in TaskIds |-> IF t = 1 THEN 3 ELSE IF t = 2 THEN 2 ELSE 1]
    /\ parallelization_factor = [t \in TaskIds |-> IF t = 1 THEN 2 ELSE 1]
    /\ dependencies = [t \in TaskIds |-> IF t = 2 THEN {1} ELSE {}]
    /\ team_size = 3
    /\ max_days = S2Horizon
    /\ start_date = Date20250101
    /\ workday_filter = "mon_fri"
    /\ Entry

\* Scenario S6: one task of effort 5, factor 1, team of 1, max_days = 3.
InitS6 ==
    /\ tasks = <<1>>
    /\ effort = [t \in TaskIds |-> IF t = 1 THEN 5 ELSE 1]
    /\ parallelization_factor = [t \in TaskIds |-> 1]
    /\ dependencies = [t \in TaskIds |-> {}]
    /\ team_size = 1
    /\ max_days = 3
    /\ start_date = Date20250101
    /\ workday_filter = "mon_fri"
    /\ Entry

Init == InitGeneral \/ InitStartDates \/ InitGraphs \/ InitS2 \/ InitS6

\* Scenario S1: one task of effort 3, factor 2, team of 3.
InitS1 ==
    /\ tasks = <<1>>
    /\ effort = [t \in TaskIds |-> IF t = 1 THEN 3 ELSE 1]
    /\ parallelization_factor = [t \in TaskIds |-> IF t = 1 THEN 2 ELSE 1]
    /\ dependencies = [t \in TaskIds |-> {}]
    /\ team_size = 3
    /\ max_days = S2Horizon
    /\ start_date = Date20250101
    /\ workday_filter = "mon_fri"
    /\ Entry

\* The first task of test_schedule_tasks alone: effort 10, factor 2, team of
\* 3, with a horizon of at least the 5 days it needs.
InitEffort10 ==
    /\ tasks = <<1>>
    /\ effort = [t \in TaskIds |-> IF t = 1 THEN 10 ELSE 1]
    /\ parallelization_factor = [t \in TaskIds |-> IF t = 1 THEN 2 ELSE 1]
    /\ dependencies = [t \in TaskIds |-> {}]
    /\ team_size = 3
    /\ max_days \in {S2Horizon + 1, S2Horizon + 2}
    /\ start_date = Date20250101
    /\ workday_filter = "mon_fri"
    /\ Entry

\* Calls with at most one task, of effort up to MaxSingleEffort, that depends
\* on nothing, on itself or on a task that is not in the list.
InitOneTask ==
    /\ \E n \in 0 .. 1 : tasks = [i \in 1 .. n |-> i]
    /\ \E e \in 1 .. MaxSingleEffort : effort = [t \in TaskIds |-> IF t = 1 THEN e ELSE 1]
    /\ \E f \in 1 .. MaxSingleEffort :
           parallelization_factor = [t \in TaskIds |-> IF t = 1 THEN f ELSE 1]
    /\ \E deps \in {{}, {1}, {2}} : dependencies = [t \in TaskIds |-> IF t = 1 THEN deps ELSE {}]
    /\ team_size \in 1 .. MaxCap + 1
    /\ max_days \in 1 .. S2Horizon
    /\ \E c \in Calendars : start_date = c[1] /\ workday_filter = c[2]
    /\ Entry

\* Scenario S3: three independent tasks of effort 5 and factor 2, team of 3,
\* with a horizon of S3Horizon days.
InitS3 ==
    /\ tasks = <<1, 2, 3>>
    /\ effort = [t \in TaskIds |-> 5]
    /\ parallelization_factor = [t \in TaskIds |-> 2]
    /\ dependencies = [t \in TaskIds |-> {}]
    /\ team_size = 3
    /\ max_days = S3Horizon
    /\ start_date = Date20250101
    /\ workday_filter = "mon_fri"
    /\ Entry

\* The general calls and the scenarios S2 and S3.
InitMakespan == InitGeneral \/ InitS2 \/ InitS3

\* Calls with at most one task of factor 1 and a team of 1, started on
\* Wednesday 2025-01-01, Friday 2025-01-03 or Saturday 2025-01-04 under each
\* workday predicate.
InitCalendars ==
    /\ \E n \in 0 .. 1 : tasks = [i \in 1 .. n |-> i]
    /\ \E e \in 1 .. MaxChunks : effort = [t \in TaskIds |-> IF t = 1 THEN e ELSE 1]
    /\ parallelization_factor = [t \in TaskIds |-> 1]
    /\ dependencies = [t \in TaskIds |-> {}]
    /\ team_size = 1
    /\ max_days = S2Horizon
    /\ start_date \in {Date20250101, Date20250101 + 2, Date20250101 + 3}
    /\ workday_filter \in WorkdayFilters
    /\ Entry

\* The calls whose constraint model is compared with its variants: at most
\* MaxModelTasks distinct tasks of any efforts and factors, each depending on
\* listed tasks built before it, started on Friday 2025-01-03.
InitConstraints ==
    /\ \E n \in 0 .. MaxModelTasks :
        /\ tasks = [i \in 1 .. n |-> i]
        /\ effort \in Efforts(n)
        /\ parallelization_factor \in Factors(n)
        /\ dependencies \in ListedDependencies(n)
    /\ team_size \in 1 .. MaxCap
    /\ max_days \in 1 .. MaxDays
    /\ start_date = Date20250101 + 2
    /\ workday_filter = "mon_fri"
    /\ Entry

\* Calls in which a task is listed more than once: lists over the tasks 1 and
\* 2 of effort 1 and factor 1, 2 depending on 1 or on nothing.
InitRepeated ==
    /\ \E n \in 2 .. MaxTasks :
           tasks \in {ts \in [1 .. n -> 1 .. 2] : \E i, j \in 1 .. n : i # j /\ ts[i] = ts[j]}
    /\ effort = [t \in TaskIds |-> 1]
    /\ parallelization_factor = [t \in TaskIds |-> 1]
    /\ \E deps \in {{}, {1}} : dependencies = [t \in TaskIds |-> IF t = 2 THEN deps ELSE {}]
    /\ team_size \in 1 .. MaxCap
    /\ max_days \in 1 .. MaxDays
    /\ start_date = Date20250101 + 2
    /\ workday_filter = "mon_fri"
    /\ Entry

\* The calls that reach the constraint model.
InitModel == InitConstraints \/ InitRepeated \/ InitS2

\* The single-task calls.
InitSingle == InitOneTask \/ InitS1 \/ InitEffort10

----------------------------------------------------------------------------
(* schedule (dsl.py 378-468) and Plan.__init__ (dsl.py 163-176), step by    *)
(* step.                                                                    *)

Raise(e) == pc' = "raised" /\ error' = e

\* dsl.py 390-391: the cycle check, for any iteration order of the sets.
CheckCircular ==
    /\ pc = "schedule"
    /\ \E found \in {has_circular_dependencies(tasks, rank) : rank \in Orders} :
        IF found
        THEN Raise("CircularDependencyError")
        ELSE pc' = "maps" /\ error' = error
    /\ UNCHANGED <<inputs, planned_tasks, model_built, solver_calls, chunk_days,
                   allocation, total_days, day, current_date, days_to_date, attached>>

\* A slip of dsl.py 392: the list is built back to front.
ScheduledTasksReversed(ts) == [i \in 1 .. Len(ts) |-> ts[Len(ts) + 1 - i]]

\* dsl.py 392: planned_tasks = [ScheduledTask(task) for task in tasks].
ScheduledTasks(ts) == [i \in 1 .. Len(ts) |-> ts[i]]

\* A slip of dsl.py 399-400: a dependency that is not in plan_of is skipped
\* instead of being looked up.
BuildMapsDropMissing ==
    /\ pc = "maps"
    /\ planned_tasks' = ScheduledTasks(tasks)
    /\ pc' = "model"
    /\ error' = error
    /\ UNCHANGED <<inputs, model_built, solver_calls, chunk_days,
                   allocation, total_days, day, current_date, days_to_date, attached>>

\* dsl.py 392-400: planned_tasks, plan_of and the dependency maps;
\* plan_of[dependency] raises KeyError for a dependency outside the list.
BuildMaps ==
    /\ pc = "maps"
    /\ planned_tasks' = ScheduledTasks(tasks)
    /\ IF \E i \in DOMAIN tasks : ~(dependencies[tasks[i]] \subseteq Range(tasks))
       THEN Raise("KeyError")
       ELSE pc' = "model" /\ error' = error
    /\ UNCHANGED <<inputs, model_built, solver_calls, chunk_days,
                   allocation, total_days, day, current_date, days_to_date, attached>>

\* dsl.py 401-467 with at least one task: build the model, solve it, and on
\* success count every chunk on its day.
Solve ==
    /\ pc = "model"
    /\ planned_tasks # <<>>
    /\ model_built' = TRUE
    /\ solver_calls' = solver_calls + 1
    /\ \E outcome \in solve :
           IF ~outcome[1]
           THEN /\ Raise("ValueError: No solution found")
                /\ UNCHANGED <<chunk_days, allocation>>
           ELSE /\ chunk_days' = outcome[2]
                /\ allocation' = [i \in DOMAIN outcome[2] |->
                                     engineer_allocation(outcome[2][i])]
                /\ pc' = "plan"
                /\ error' = error
    /\ UNCHANGED <<inputs, planned_tasks, total_days, day, current_date,
                   days_to_date, attached>>

\* dsl.py 401-467 with no task: all_chunks is empty, so cp.Maximum([]) is
\* built over no argument.  What cpmpy does with it is not part of this
\* repository: it raises while the model is built or solved, or solve()
\* returns False, or solve() returns True; all three are allowed here.
SolveEmpty ==
    /\ pc = "model"
    /\ planned_tasks = <<>>
    /\ model_built' = TRUE
    /\ \/ /\ Raise("cpmpy error")
          /\ UNCHANGED solver_calls
       \/ /\ Raise("cpmpy error")
          /\ solver_calls' = solver_calls + 1
       \/ /\ Raise("ValueError: No solution found")
          /\ solver_calls' = solver_calls + 1
       \/ /\ pc' = "plan" /\ error' = error
          /\ solver_calls' = solver_calls + 1
    /\ UNCHANGED <<inputs, planned_tasks, chunk_days, allocation, total_days, day,
                   current_date, days_to_date, attached>>

\* dsl.py 164-168: total_days = max(end_day or 0 ...) raises ValueError when
\* scheduled_tasks is empty; otherwise the loop starts at start_date.
PlanInit ==
    /\ pc = "plan"
    /\ IF planned_tasks = <<>>
       THEN /\ Raise("ValueError: max() arg is an empty sequence")
            /\ UNCHANGED <<total_days, current_date>>
       ELSE /\ total_days' =
                  SetMax({IF end_day(allocation[i]) = -1 THEN 0
                          ELSE end_day(allocation[i]) : i \in Planned})
            /\ current_date' = start_date
            /\ pc' = "plan_for"
            /\ error' = error
    /\ day' = 0
    /\ days_to_date' = <<>>
    /\ UNCHANGED <<inputs, planned_tasks, model_built, solver_calls, chunk_days,
                   allocation, attached>>

\* A slip of dsl.py 172: no date is ever skipped.
not_workday_never(d) == FALSE

\* dsl.py 172: the condition of the while loop, `not workday_filter(current_date)`.
not_workday(d) == ~is_workday(workday_filter, d)

\* dsl.py 169-171: one iteration of `for day in range(total_days+1)` up to
\* the while loop.
PlanFor ==
    /\ pc = "plan_for"
    /\ days_to_date' = [d \in 0 .. day |-> IF d = day THEN current_date ELSE days_to_date[d]]
    /\ IF current_date + 1 > MaxDate
       THEN Raise("OverflowError") /\ current_date' = current_date
       ELSE current_date' = current_date + 1 /\ pc' = "plan_while" /\ error' = error
    /\ UNCHANGED <<inputs, planned_tasks, model_built, solver_calls, chunk_days,
                   allocation, total_days, day, attached>>

\* A slip of dsl.py 173: the date is not advanced in the while loop.
PlanSkipNoAdvance ==
    /\ pc = "plan_while"
    /\ not_workday(current_date)
    /\ UNCHANGED vars

\* dsl.py 172-173: one iteration of `while not workday_filter(current_date)`.
PlanSkip ==
    /\ pc = "plan_while"
    /\ not_workday(current_date)
    /\ IF current_date + 1 > MaxDate
       THEN Raise("OverflowError") /\ current_date' = current_date
       ELSE current_date' = current_date + 1 /\ pc' = pc /\ error' = error
    /\ UNCHANGED <<inputs, planned_tasks, model_built, solver_calls,
                   chunk_days, allocation, total_days, day, days_to_date, attached>>

\* A slip of dsl.py 169: the for loop runs over range(total_days).
PlanNextShort ==
    /\ pc = "plan_while"
    /\ ~not_workday(current_date)
    /\ IF day + 1 < total_days
       THEN day' = day + 1 /\ pc' = "plan_for"
       ELSE day' = day /\ pc' = "plan_attach"
    /\ UNCHANGED <<inputs, error, planned_tasks, model_built, solver_calls, chunk_days,
                   allocation, total_days, current_date, days_to_date, attached>>

\* dsl.py 172, 169: the while loop ends; the for loop goes on or ends.
PlanNext ==
    /\ pc = "plan_while"
    /\ ~not_workday(current_date)
    /\ IF day + 1 <= total_days
       THEN day' = day + 1 /\ pc' = "plan_for"
       ELSE day' = day /\ pc' = "plan_attach"
    /\ UNCHANGED <<inputs, error, planned_tasks, model_built, solver_calls, chunk_days,
                   allocation, total_days, current_date, days_to_date, attached>>

\* dsl.py 174-176 and the return of schedule (dsl.py 468).
PlanAttach ==
    /\ pc = "plan_attach"
    /\ attached' = TRUE
    /\ pc' = "done"
    /\ UNCHANGED <<inputs, error, planned_tasks, model_built, solver_calls, chunk_days,
                   allocation, total_days, day, current_date, days_to_date>>

Next ==
    \/ CheckCircular
    \/ BuildMaps
    \/ Solve
    \/ SolveEmpty
    \/ PlanInit
    \/ PlanFor
    \/ PlanSkip
    \/ PlanNext
    \/ PlanAttach

Spec == Init /\ [][Next]_vars

\* The same steps from the calls of Init and scenario S3.
SpecMakespan == InitMakespan /\ [][Next]_vars

\* The calls of InitCalendars, in which the program keeps taking steps while
\* it has one to take.
SpecCalendars == InitCalendars /\ [][Next]_vars /\ WF_vars(Next)

\* The same steps from the calls that reach the constraint model.
SpecConstraints == InitModel /\ [][Next]_vars

\* The same steps from the single-task scenarios.
SpecSingle == InitSingle /\ [][Next]_vars

----------------------------------------------------------------------------
(* The returned Plan as its readers see it.                                *)

\* schedule has returned a Plan.
Returned == pc = "done"

\* The engineers of the i-th scheduled task on day d in the plan as returned:
\* the value stored under d, 0 when d is no key.  It looks at the plan without
\* touching it (daily_engineer_allocation.get(d, 0)); indexing the defaultdict
\* of dsl.py 113 with an absent day would also add the key, which no statement
\* of the program does.
EngineersOn(i, d) == IF d \in DOMAIN allocation[i] THEN allocation[i][d] ELSE 0

\* The sum of the values of a function with a finite domain.
RECURSIVE ValueSum(_)
ValueSum(f) ==
    IF DOMAIN f = {} THEN 0
    ELSE LET x == CHOOSE y \in DOMAIN f : TRUE
         IN  f[x] + ValueSum([y \in DOMAIN f \ {x} |-> f[y]])

\* V depends on U, for the i-th and j-th listed tasks U and V.
DependsOn(j, i) == tasks[i] \in dependencies[tasks[j]]

\* ScheduledTask.start_date / end_date (dsl.py 130-145); 0 stands for None.
scheduled_start_date(i) ==
    IF ~attached \/ start_day(allocation[i]) = -1 THEN 0
    ELSE days_to_date[start_day(allocation[i])]

scheduled_end_date(i) ==
    IF ~attached \/ end_day(allocation[i]) = -1 THEN 0
    ELSE days_to_date[end_day(allocation[i])]

\* The keys of ScheduledTask.date_engineer_allocation (dsl.py 146-150).
allocation_dates(i) ==
    IF ~attached THEN {} ELSE {days_to_date[d] : d \in DOMAIN allocation[i]}

\* The tasks reachable from the set S along dependency edges, S included.
RECURSIVE Closure(_)
Closure(S) ==
    LET next == S \cup UNION {dependencies[t] : t \in S}
    IN  IF next = S THEN S ELSE Closure(next)

\* The dependency graph reachable from the input tasks has a directed cycle.
HasCycle == \E t \in Closure(Range(tasks)) : t \in Closure(dependencies[t])

\* The constraints as section 4.3 of the specification states them, with the
\* capacities on every day of [0, max_days].
CapacityOnWholeHorizon(a) ==
    /\ \A i \in DOMAIN a : \A d \in 0 .. max_days :
          Count(a[i], d) <= Min2(parallelization_factor[tasks[i]], team_size)
    /\ \A d \in 0 .. max_days : CountAll(a, 1, d) <= team_size

FeasibleOnWholeHorizon ==
    \E a \in Candidates(Len(planned_tasks)) :
        Precedence(a) /\ CapacityOnWholeHorizon(a)

IsS2 ==
    /\ tasks = <<1, 2>>
    /\ effort[1] = 3 /\ parallelization_factor[1] = 2 /\ dependencies[1] = {}
    /\ effort[2] = 2 /\ parallelization_factor[2] = 1 /\ dependencies[2] = {1}
    /\ team_size = 3
    /\ max_days >= 4
    /\ start_date = Date20250101
    /\ workday_filter = "mon_fri"

IsS6 ==
    /\ tasks = <<1>>
    /\ effort[1] = 5 /\ parallelization_factor[1] = 1 /\ dependencies[1] = {}
    /\ team_size = 1
    /\ max_days = 3

----------------------------------------------------------------------------
(* The claims.                                                             *)

\* C1: in every returned plan, every task has at most
\* min(parallelization_factor, team.size) engineers on every working day of
\* [0, max_days], the last day d = max_days included.
C1_TaskCapacityEveryDay ==
    Returned =>
        \A i \in Planned : \A d \in 0 .. max_days :
            EngineersOn(i, d) <= Min2(parallelization_factor[tasks[i]], team_size)

\* C2: in every returned plan, on every working day of [0, max_days] the
\* engineers of all tasks together are at most team.size.
C2_TeamCapacityEveryDay ==
    Returned =>
        \A d \in 0 .. max_days :
            SeqSum([i \in Planned |-> EngineersOn(i, d)]) <= team_size

\* C3: in every returned plan, for every dependency edge U -> V between input
\* tasks, the first allocated day of V is strictly after the last allocated
\* day of U.
C3_DependentStartsAfterPrerequisiteEnds ==
    Returned =>
        \A i, j \in Planned :
            DependsOn(j, i) => start_day(allocation[j]) > end_day(allocation[i])

\* C3 witness: a plan was returned for a team of at least two in which a
\* dependent task starts after its prerequisite has ended.
C3_Witness ==
    /\ Returned
    /\ team_size >= 2
    /\ \E i, j \in Planned :
          /\ DependsOn(j, i)
          /\ end_day(allocation[i]) >= 0
          /\ start_day(allocation[j]) > end_day(allocation[i])

\* C4: in every returned plan, the allocations of every task sum to its
\* effort, and every stored allocation value is a positive integer.
C4_AllocationSumsToEffort ==
    Returned =>
        \A i \in Planned :
            /\ ValueSum(allocation[i]) = effort[tasks[i]]
            /\ \A d \in DOMAIN allocation[i] : allocation[i][d] \in Nat \ {0}

\* C4 witness: a plan was returned in which a task of effort 3 that two
\* engineers may share has two chunks on day 0 and the third on day 1.
C4_Witness ==
    /\ Returned
    /\ \E i \in Planned :
          /\ effort[tasks[i]] = 3
          /\ Min2(parallelization_factor[tasks[i]], team_size) = 2
          /\ DOMAIN allocation[i] = {0, 1}
          /\ allocation[i][0] = 2
          /\ allocation[i][1] = 1

\* C5: whenever no assignment of chunk days within [0, max_days] satisfies
\* precedence, per-task capacity and team capacity on every day of the
\* horizon, schedule returns no Plan and raises the infeasibility error
\* (scenario S6 in particular).
C5_InfeasibleRaises ==
    (pc \in {"done", "raised"} /\ planned_tasks # <<>>
        /\ error \notin {"CircularDependencyError", "KeyError"}
        /\ ~FeasibleOnWholeHorizon)
    => (pc = "raised" /\ error = "ValueError: No solution found")

\* C6: schedule raises the circular-dependency error if and only if the
\* dependency graph reachable from the input tasks has a directed cycle, and
\* it does so before any chunk variable or constraint exists and before any
\* solver call.
C6_CircularErrorIffCycle ==
    pc # "schedule" =>
        /\ (error = "CircularDependencyError") <=> HasCycle
        /\ error = "CircularDependencyError" =>
              ~model_built /\ solver_calls = 0 /\ chunk_days = <<>>

\* C6 witness: the error was raised for a cycle that the first input task
\* neither lies on nor reaches, with no model built and no solver call.
C6_Witness ==
    /\ error = "CircularDependencyError"
    /\ Len(tasks) >= 2
    /\ \A t \in Closure({tasks[1]}) : t \notin Closure(dependencies[t])
    /\ ~model_built
    /\ solver_calls = 0

\* C7: schedule called with an empty task list does not raise; it returns a
\* Plan whose scheduled_tasks is empty, without any solver call.
C7_EmptyListReturnsEmptyPlan ==
    (tasks = <<>> /\ pc \in {"done", "raised"}) =>
        (pc = "done" /\ planned_tasks = <<>> /\ solver_calls = 0)

\* The statement of C8 about one returned plan: every date keyed in a task's
\* date_engineer_allocation is a workday, and start_date / end_date are the
\* dates of start_day / end_day.
DatesAreWorkdays ==
    \A i \in Planned :
        /\ \A d \in allocation_dates(i) : is_workday(workday_filter, d)
        /\ scheduled_start_date(i) = days_to_date[start_day(allocation[i])]
        /\ scheduled_end_date(i) = days_to_date[end_day(allocation[i])]
        /\ is_workday(workday_filter, scheduled_start_date(i))
        /\ is_workday(workday_filter, scheduled_end_date(i))

\* C8 as claimed: for any start_date and any workday predicate, every
\* calendar date of every task of a returned plan satisfies the predicate.
C8_DatesAreWorkdaysAnyStart == Returned => DatesAreWorkdays

\* C8 as amended: the same, for any start_date that itself satisfies the
\* workday predicate.
C8_DatesAreWorkdaysWorkdayStart ==
    (Returned /\ is_workday(workday_filter, start_date)) => DatesAreWorkdays

\* C8 witness: a plan that starts on a workday was returned and some task is
\* allocated on a working day that follows skipped dates.
C8_Witness ==
    /\ Returned
    /\ is_workday(workday_filter, start_date)
    /\ \E i \in Planned : \E d \in DOMAIN allocation[i] :
          d >= 1 /\ days_to_date[d] > days_to_date[d - 1] + 1

\* C9: the returned Plan has exactly one ScheduledTask per input task, in
\* input order, whatever the dependencies and the assigned days.
C9_InputOrderPreserved ==
    Returned =>
        /\ Len(planned_tasks) = Len(tasks)
        /\ \A i \in DOMAIN tasks : planned_tasks[i] = tasks[i]

\* C9 witness: a plan was returned for a list in which a task comes before a
\* task it depends on, so list order and day order disagree.
C9_Witness ==
    /\ Returned
    /\ \E i, j \in DOMAIN tasks :
          /\ i < j
          /\ DependsOn(i, j)
          /\ planned_tasks[i] = tasks[i]
          /\ start_day(allocation[i]) > start_day(allocation[j])

\* C10: scenario S2 has one result: A is allocated {0: 2, 1: 1}, B is
\* allocated {2: 1, 3: 1}, A runs 2025-01-01 .. 2025-01-02 and B runs
\* 2025-01-03 .. 2025-01-06.
C10_ScenarioS2 ==
    (IsS2 /\ Returned) =>
        /\ Len(allocation) = 2
        /\ allocation[1] = [d \in {0, 1} |-> IF d = 0 THEN 2 ELSE 1]
        /\ allocation[2] = [d \in {2, 3} |-> 1]
        /\ scheduled_start_date(1) = Date20250101
        /\ scheduled_end_date(1) = Date20250101 + 1
        /\ scheduled_start_date(2) = Date20250101 + 2
        /\ scheduled_end_date(2) = Date20250101 + 5

\* C10 witness: the plan of scenario S2 was returned, B ending on Monday
\* 2025-01-06.
C10_Witness ==
    /\ IsS2
    /\ Returned
    /\ scheduled_end_date(2) = Date20250101 + 5

\* The ceiling of e / c.
CeilDiv(e, c) == (e + c - 1) \div c

\* c engineers on each of the days 0 .. floor(e/c) - 1 and the remainder, if
\* any, on day floor(e/c).
FrontLoaded(e, c) ==
    [d \in 0 .. CeilDiv(e, c) - 1 |-> IF d < e \div c THEN c ELSE e % c]

\* C11: for a single task without dependencies, cap c = min(factor,
\* team.size), default weights and max_days >= ceil(effort / c), the returned
\* plan is front-loaded at full parallelism: c engineers on each of the days
\* 0 .. floor(effort/c) - 1 and the remainder on day floor(effort/c), so the
\* task occupies exactly ceil(effort / c) consecutive days from day 0.
C11_SingleTaskFrontLoaded ==
    (/\ Returned
     /\ Len(tasks) = 1
     /\ dependencies[tasks[1]] = {}
     /\ max_days >= CeilDiv(effort[tasks[1]],
                            Min2(parallelization_factor[tasks[1]], team_size)))
    => LET e == effort[tasks[1]]
           c == Min2(parallelization_factor[tasks[1]], team_size)
       IN  /\ allocation[1] = FrontLoaded(e, c)
           /\ start_day(allocation[1]) = 0
           /\ end_day(allocation[1]) = CeilDiv(e, c) - 1
           /\ DOMAIN allocation[1] = 0 .. CeilDiv(e, c) - 1

\* C11 witness: the plan of the task of effort 10 and factor 2 was returned
\* with 2 engineers on each of the days 0 .. 4.
C11_Witness ==
    /\ Returned
    /\ Len(tasks) = 1
    /\ effort[tasks[1]] = 10
    /\ allocation[1] = [d \in 0 .. 4 |-> 2]

\* C12: in every assignment of chunk days that satisfies the per-task and
\* team capacity constraints on every day, each task's context term
\* max(days) - min(days) - optimistic_task_duration is at least 0.
C12_ContextTermNonNegative ==
    pc = "model" =>
        \A a \in Candidates(Len(planned_tasks)) :
            CapacityOnWholeHorizon(a) =>
                \A i \in DOMAIN a : context_term(i, a[i]) >= 0

IsS3 ==
    /\ tasks = <<1, 2, 3>>
    /\ \A t \in 1 .. 3 :
          effort[t] = 5 /\ parallelization_factor[t] = 2 /\ dependencies[t] = {}
    /\ team_size = 3
    /\ max_days >= 5

\* The largest day index used by any chunk of an assignment.
Makespan(a) == SetMax(AllDays(a))

TaskDaysUnordered(i) ==
    {days \in [1 .. effort[planned_tasks[i]] -> 0 .. max_days] : TaskCapacity(i, days)}

RECURSIVE CandidatesUnordered(_)
CandidatesUnordered(n) ==
    IF n = 0 THEN {<<>>}
    ELSE {Append(a, days) : a \in CandidatesUnordered(n - 1), days \in TaskDaysUnordered(n)}

\* The satisfying assignments of the model without the monotonicity constraints.
SatisfyingUnordered ==
    {a \in CandidatesUnordered(Len(planned_tasks)) :
        Precedence(a) /\ PrecedenceMirror(a) /\ TeamCapacity(a)}

\* The per-task daily allocations (day -> engineer count) of a set of assignments.
Allocations(assignments) ==
    {[i \in DOMAIN a |-> engineer_allocation(a[i])] : a \in assignments}

\* The least objective value over a set of assignments; -1 stands for none.
LeastCost(assignments) ==
    IF assignments = {} THEN -1 ELSE SetMin({cost_function(a) : a \in assignments})

\* C14: the monotonicity constraints do not restrict the solution space: the
\* per-task daily allocations of the satisfying assignments are the same with
\* and without them, and so is the least objective value.
C14_MonotonicityKeepsAllocations ==
    (pc = "model" /\ planned_tasks # <<>>) =>
        \E ordered \in {Satisfying} : \E unordered \in {SatisfyingUnordered} :
            /\ Allocations(ordered) = Allocations(unordered)
            /\ LeastCost(ordered) = LeastCost(unordered)

\* C14 witness: the model is about to be built for a call in which some
\* assignment satisfies every other constraint with the chunks of a task out
\* of order.
C14_Witness ==
    /\ pc = "model"
    /\ planned_tasks # <<>>
    /\ \E a \in SatisfyingUnordered : \E i \in DOMAIN a : ~Monotonic(a[i])
    /\ Satisfying # {}

\* The satisfying assignments of the model without the mirror constraints of
\* dsl.py 427-431.
SatisfyingWithoutMirror ==
    {a \in Candidates(Len(planned_tasks)) : Precedence(a) /\ TeamCapacity(a)}

\* The chunks of the i-th planned task, as <<task, identifier>>.
ChunksOf(i) == {i} \X (1 .. effort[planned_tasks[i]])

\* The <<dependency chunk, dependent chunk>> pairs constrained by the loops of
\* dsl.py 419-423.
StrictPairs ==
    UNION {ChunksOf(x[1]) \X ChunksOf(x[2]) :
           x \in {y \in Planned \X Planned : y[2] \in dependents_of(y[1])}}

\* The <<dependency chunk, dependent chunk>> pairs constrained by the loops of
\* dsl.py 427-431.
MirrorPairs ==
    UNION {ChunksOf(x[1]) \X ChunksOf(x[2]) :
           x \in {y \in Planned \X Planned : y[1] \in dependencies_of(y[2])}}

\* C15: the mirror constraints range over the same (dependency, dependent)
\* chunk pairs as the strict precedence constraints and are implied by them:
\* the satisfying assignments are the same with and without the mirror
\* constraints.
C15_MirrorConstraintsRedundant ==
    (pc = "model" /\ planned_tasks # <<>>) =>
        /\ MirrorPairs = StrictPairs
        /\ \E without \in {SatisfyingWithoutMirror} :
              /\ without = Satisfying
              /\ \A a \in without : PrecedenceMirror(a)

\* C15 witness: the model is about to be built for tasks with a dependency
\* edge, and some candidate meets the mirror constraints but not the strict
\* ones.
C15_Witness ==
    /\ pc = "model"
    /\ StrictPairs # {}
    /\ Satisfying # {}
    /\ \E a \in Candidates(Len(planned_tasks)) : PrecedenceMirror(a) /\ ~Precedence(a)

\* C16: days_to_date of a returned plan has exactly the keys 0 .. max end_day
\* of the scheduled tasks; days_to_date[0] is start_date; for every d >= 1,
\* days_to_date[d] is the earliest workday strictly after days_to_date[d - 1]:
\* the dates increase strictly and every date strictly between two consecutive
\* entries is a non-workday.
C16_DaysToDate ==
    Returned =>
        /\ DOMAIN days_to_date = 0 .. SetMax({end_day(allocation[i]) : i \in DOMAIN allocation})
        /\ days_to_date[0] = start_date
        /\ \A d \in DOMAIN days_to_date \ {0} :
              /\ is_workday(workday_filter, days_to_date[d])
              /\ days_to_date[d] > days_to_date[d - 1]
              /\ \A x \in days_to_date[d - 1] + 1 .. days_to_date[d] - 1 :
                    ~is_workday(workday_filter, x)

\* C16 witness: a plan of at least 3 working days was returned whose dates skip
\* a weekend.
C16_Witness ==
    /\ Returned
    /\ DOMAIN days_to_date = 0 .. 2
    /\ \E d \in 1 .. 2 : days_to_date[d] = days_to_date[d - 1] + 3

\* Some input task depends on a task that is not in the input list.
HasMissing ==
    \E i \in DOMAIN tasks : ~(dependencies[tasks[i]] \subseteq Range(tasks))

\* C17: when some input task depends on a task that is not in the input list,
\* schedule never returns a plan; once past the cycle check it fails while the
\* dependency maps are built, before any chunk variable or constraint exists
\* and before any solver call.
C17_MissingDependencyFails ==
    HasMissing =>
        /\ pc \in {"schedule", "maps", "raised"}
        /\ pc = "raised" =>
              error = (IF HasCycle THEN "CircularDependencyError" ELSE "KeyError")
        /\ ~model_built
        /\ solver_calls = 0
        /\ chunk_days = <<>>
        /\ ~attached

\* C17 witness: a call whose second task depends on a task outside the list
\* passed the cycle check and failed with KeyError.
C17_Witness ==
    /\ HasMissing
    /\ ~HasCycle
    /\ Len(tasks) >= 2
    /\ pc = "raised"
    /\ error = "KeyError"

\* The workday predicate accepts some date after every date.
AcceptsLaterDates == workday_filter \in {"mon_fri", "every_day"}

\* C18: Plan construction ends whenever the workday predicate accepts some
\* date after every date; the date-advancing loop runs once more after the
\* last used working day, so a plan is returned only when a workday lies
\* strictly after the date of the plan's last day, and with a predicate that
\* accepts no later date the construction never returns.
C18_PlanConstructionTermination ==
    /\ (pc = "plan" /\ planned_tasks # <<>> /\ AcceptsLaterDates) ~> Returned
    /\ [](Returned =>
            /\ current_date > days_to_date[total_days]
            /\ is_workday(workday_filter, current_date))
    /\ []((pc \in {"plan_while", "plan_attach", "done"} /\ day = total_days
           /\ \A x \in days_to_date[total_days] + 1 .. MaxDate :
                 ~is_workday(workday_filter, x))
          => [](~Returned))

\* C18 witness: all the days of the plan are dated, the last one on Friday
\* 2025-01-03, and the loop is advancing over dates of which the predicate
\* accepts none.
C18_Witness ==
    /\ pc = "plan_while"
    /\ day = total_days
    /\ workday_filter = "mon_fri_until_jan_3"
    /\ days_to_date[total_days] = Date20250101 + 2
    /\ current_date > Date20250101 + 5

====
